---- MODULE Spec2Model ----
(***************************************************************************)
(* Model of results-requests/compare.py: a script that reads two JSON      *)
(* benchmark summaries per framework, aggregates throughput and latency    *)
(* into parallel lists, draws a two-panel grouped bar chart with value     *)
(* labels, saves it and prints a confirmation line.                        *)
(*                                                                         *)
(* A float is a sign and a fixed-point magnitude, so that -0.0 differs from *)
(* 0.0: requestsPerSec (and every throughput value) is counted in tenths,  *)
(* summary.average and every latency value in units of 10^-6.  Text is a   *)
(* sequence of one-character strings.  Horizontal positions are counted in *)
(* thousandths of an axis unit.                                            *)
(***************************************************************************)
EXTENDS Integers, Sequences, FiniteSets, TLC

\* number of entries of the frameworks dict that the model iterates over
NumFrameworks == 2
\* number of times the script is run over the same input files
MaxRuns == 2

-----------------------------------------------------------------------------
\* compare.py:14-22, the frameworks dict in insertion order
AllFrameworks ==
  << [name |-> "Bun",        files |-> <<"bun_no_schema.json", "bun_schema.json">>],
     [name |-> "Elysia",     files |-> <<"elysia_no_schema.json", "elysia_schema.json">>],
     [name |-> "Encore",     files |-> <<"encore_no_schema.json", "encore_schema.json">>],
     [name |-> "Express",    files |-> <<"express_no_schema.json", "express_schema.json">>],
     [name |-> "Fastify",    files |-> <<"fastify_no_schema.json", "fastify_schema.json">>],
     [name |-> "Fastify v5", files |-> <<"fastify-v5_no_schema.json", "fastify-v5_schema.json">>],
     [name |-> "Hono",       files |-> <<"hono_no_schema.json", "hono_schema.json">>] >>

frameworks == SubSeq(AllFrameworks, 1, NumFrameworks)

N == Len(frameworks)

\* the configured input files, in the order the loop reads them
ConfigFiles == [k \in 1..(2 * N) |-> frameworks[(k + 1) \div 2].files[2 - (k % 2)]]

FileSet == {ConfigFiles[k] : k \in 1..(2 * N)}

-----------------------------------------------------------------------------
\* Contents a configured file can have.  exists = FALSE: the file is absent;
\* text = FALSE: its bytes do not decode in the encoding open() uses, so
\* f.read() inside json.load raises UnicodeDecodeError; valid = FALSE: the
\* text is not valid JSON; otherwise doc is the parsed document, a record
\* whose DOMAIN is the set of keys present.
\* requestsPerSec is in tenths, average in units of 10^-6 seconds.
NoDoc == [none |-> 0]

Abs(n) == IF n < 0 THEN -n ELSE n

\* the float that json.load reads from the decimal n, sign bit and magnitude
Float(n) == [neg |-> n < 0, mag |-> Abs(n)]

\* the float -0.0, which json.load reads from the text -0.0
NegZero == [neg |-> TRUE, mag |-> 0]

JsonDoc(rps, avg) == [summary |-> [requestsPerSec |-> rps, average |-> avg]]

\* documents with both fields: the no-schema and schema files of the concrete
\* scenario, 50000 req/s at 0.002 s and 42000 req/s at 0.0025 s
OkDocs == { JsonDoc(Float(500000), Float(2000)), JsonDoc(Float(420000), Float(2500)) }

\* documents whose values exercise the label formats
\* (12.505 ms and 0.035 ms are decimal ties: the doubles lie above and below)
LabelDocs ==
  { JsonDoc(Float(499999), Float(2500)),        \* 49999.9 req/s,    0.0025 s
    JsonDoc(Float(-12345678), Float(12505)),    \* -1234567.8 req/s, 0.012505 s
    JsonDoc(Float(9996), NegZero),              \* 999.6 req/s,      -0.0 s
    JsonDoc(Float(-4), Float(-999996)),         \* -0.4 req/s,       -0.999996 s
    JsonDoc(NegZero, Float(35)) }               \* -0.0 req/s,       0.000035 s

ShapeErrorDocs ==
  { [errors |-> 0],                                         \* no summary
    [summary |-> [average |-> Float(2500)]],                \* no requestsPerSec
    [summary |-> [requestsPerSec |-> Float(420000)]] }      \* no average

FileContents ==
  { [exists |-> FALSE, text |-> FALSE, valid |-> FALSE, doc |-> NoDoc],
    [exists |-> TRUE,  text |-> FALSE, valid |-> FALSE, doc |-> NoDoc],
    [exists |-> TRUE,  text |-> TRUE,  valid |-> FALSE, doc |-> NoDoc] }
  \cup { [exists |-> TRUE, text |-> TRUE, valid |-> TRUE, doc |-> d] :
            d \in OkDocs \cup ShapeErrorDocs }

-----------------------------------------------------------------------------
VARIABLES
  fs,                 \* input files: file name -> contents (never written by the script)
  output,             \* framework_comparison.png: whether it exists and what it shows
  run,                \* which run of the script this is
  pc,                 \* position of the run in the script
  error,              \* exception that aborted the run, "" if none
  i,                  \* 1-based position of the loop in frameworks
  slot,               \* index into files of the file being processed (0 or 1)
  data,               \* the variable data
  retval,             \* value json.load returned inside read_json_file
  pending,            \* exception raised inside the with block, "" if none
  openFiles,          \* files currently open
  rps_no_schema, rps_schema, latency_no_schema, latency_schema, framework_names,
  rps1, rps2, lat1, lat2,          \* bar containers
  ax1, ax2,           \* per axes: ticks, tick labels, text labels
  labelPos,           \* position in the current label loop
  stdout,             \* lines printed by this run
  imageWrites,        \* number of times this run wrote the output file
  openLog,            \* history: files opened by this run, in order
  prevOutcome         \* history: outcome of the previous run, NoOutcome before

lists == <<rps_no_schema, rps_schema, latency_no_schema, latency_schema, framework_names>>
chart == <<rps1, rps2, lat1, lat2, ax1, ax2, labelPos>>
vars == <<fs, output, run, pc, error, i, slot, data, retval, pending, openFiles,
          lists, chart, stdout, imageWrites, openLog, prevOutcome>>

-----------------------------------------------------------------------------
\* Number formatting

DigitChar(d) == <<"0", "1", "2", "3", "4", "5", "6", "7", "8", "9">>[d + 1]

\* decimal digits of a natural number, as str() writes them
RECURSIVE Digits(_)
Digits(n) == IF n < 10 THEN <<DigitChar(n)>>
             ELSE Digits(n \div 10) \o <<DigitChar(n % 10)>>

\* the "," format option: a comma before every group of three digits
RECURSIVE GroupThousands(_)
GroupThousands(ds) ==
  IF Len(ds) <= 3 THEN ds
  ELSE GroupThousands(SubSeq(ds, 1, Len(ds) - 3)) \o <<",">> \o SubSeq(ds, Len(ds) - 2, Len(ds))

\* variant: round(height), the nearest integer, in place of int(height)
IntOf_Round(h) == IF h.neg THEN -((h.mag + 5) \div 10) ELSE (h.mag + 5) \div 10

\* int(height) of a height in tenths: truncation toward zero; the integer has
\* no negative zero
IntOf(h) == IF h.neg THEN -(h.mag \div 10) ELSE h.mag \div 10

\* f"{n:,}" of an integer n
FormatGrouped(n) ==
  IF n < 0 THEN <<"-">> \o GroupThousands(Digits(-n)) ELSE GroupThousands(Digits(n))

\* compare.py:70, f"{int(height):,}" of a height in tenths
ThroughputLabel(h) == FormatGrouped(IntOf(h))

\* Natural numbers beyond the range of the checker's integers, as sequences of
\* limbs in base 2^15, least significant limb first.  They carry the 53-bit
\* significands of the doubles the script computes.
RECURSIVE Pow2(_)
Pow2(k) == IF k = 0 THEN 1 ELSE 2 * Pow2(k - 1)

Limb == Pow2(15)

RECURSIVE BigOf(_)
BigOf(n) == IF n < Limb THEN <<n>> ELSE <<n % Limb>> \o BigOf(n \div Limb)

\* A * c + carry, for c <= Limb
RECURSIVE BigMul(_, _, _)
BigMul(A, c, carry) ==
  IF A = <<>> THEN (IF carry = 0 THEN <<>> ELSE BigOf(carry))
  ELSE LET t == A[1] * c + carry
       IN  <<t % Limb>> \o BigMul(Tail(A), c, t \div Limb)

\* A * 2^e
RECURSIVE BigShl(_, _)
BigShl(A, e) == IF e >= 15 THEN <<0>> \o BigShl(A, e - 15) ELSE BigMul(A, Pow2(e), 0)

\* quotient and remainder of A by d, for d <= Limb
RECURSIVE BigDivMod(_, _)
BigDivMod(A, d) ==
  IF A = <<>> THEN [q |-> <<>>, r |-> 0]
  ELSE LET hi == BigDivMod(Tail(A), d)
           t == hi.r * Limb + A[1]
       IN  [q |-> <<t \div d>> \o hi.q, r |-> t % d]

\* -1, 0 or 1 as A is below, equal to or above C
RECURSIVE BigCmp(_, _)
BigCmp(A, C) ==
  IF A = <<>> /\ C = <<>> THEN 0
  ELSE LET a0 == IF A = <<>> THEN 0 ELSE A[1]
           c0 == IF C = <<>> THEN 0 ELSE C[1]
           hi == BigCmp(IF A = <<>> THEN <<>> ELSE Tail(A), IF C = <<>> THEN <<>> ELSE Tail(C))
       IN  IF hi # 0 THEN hi ELSE IF a0 < c0 THEN -1 ELSE IF a0 > c0 THEN 1 ELSE 0

RECURSIVE BigInc(_)
BigInc(A) == IF A = <<>> THEN <<1>>
             ELSE IF A[1] + 1 < Limb THEN <<A[1] + 1>> \o Tail(A)
             ELSE <<0>> \o BigInc(Tail(A))

BigOdd(A) == A # <<>> /\ A[1] % 2 = 1

\* A / d to the nearest integer, ties to even (the IEEE 754 rounding), d <= Limb
BigRoundDiv(A, d) ==
  LET qr == BigDivMod(A, d)
  IN  IF 2 * qr.r > d \/ (2 * qr.r = d /\ BigOdd(qr.q)) THEN BigInc(qr.q) ELSE qr.q

\* A / 10^6 to the nearest integer, ties to even
BigRoundDivMillion(A) ==
  LET d1 == BigDivMod(A, 1000)
      d2 == BigDivMod(d1.q, 1000)
      r == d2.r * 1000 + d1.r
  IN  IF 2 * r > 1000000 \/ (2 * r = 1000000 /\ BigOdd(d2.q)) THEN BigInc(d2.q) ELSE d2.q

\* the k with 10^6 <= u * 2^k < 2 * 10^6, counted from k on, for u >= 1; k is
\* negative from u = 2 * 10^6 on
RECURSIVE ScaleExp(_, _)
ScaleExp(u, k) == IF u >= 2000000 THEN ScaleExp(u \div 2, k - 1)
                  ELSE IF u >= 1000000 THEN k
                  ELSE ScaleExp(2 * u, k + 1)

\* compare.py:37,42,92: where the double that average * 1000 yields lies
\* relative to the decimal u / 1000, for an average of u * 10^-6 read by
\* json.load (1 <= u < 2^31): -1 below, 0 equal, 1 above.  json.load gives the double
\* nearest to u / 10^6, significand m at exponent -e; the product m * 1000 is
\* rounded to 53 bits again, significand m2 at exponent t - e.
DoubleVsDecimal(u) ==
  LET e == 52 + ScaleExp(u, 0)
      m == BigRoundDivMillion(BigShl(BigOf(u), e))
      p == BigMul(m, 1000, 0)
      t == IF BigCmp(p, BigShl(<<1>>, 62)) >= 0 THEN 10 ELSE 9
      m2 == BigRoundDiv(p, Pow2(t))
  IN  BigCmp(BigMul(BigShl(m2, t), 1000, 0), BigShl(BigOf(u), e))

\* compare.py:92, the '.2f' conversion: the number of hundredths nearest to
\* the double of magnitude a (in units of 10^-6) that line 37 or 42 computed.
\* Off a decimal tie the double and the decimal round alike.  On a decimal tie
\* the double decides: it lies above or below the tie, or is the tie exactly,
\* and only then the even neighbour is taken.
RoundHundredths(a) ==
  LET q == a \div 10000
      r == a % 10000
      side == IF r = 5000 THEN DoubleVsDecimal(a \div 1000) ELSE 0
  IN  IF r > 5000 \/ (r = 5000 /\ (side > 0 \/ (side = 0 /\ q % 2 = 1)))
        THEN q + 1 ELSE q

\* compare.py:92, f"{height:.2f}" of a height in units of 10^-6; the sign is
\* the sign bit of the float, kept when the height is or rounds to zero
LatencyLabel(h) ==
  LET c == RoundHundredths(h.mag)
      body == Digits(c \div 100) \o <<".", DigitChar((c % 100) \div 10), DigitChar(c % 10)>>
  IN  IF h.neg THEN <<"-">> \o body ELSE body

\* variant: the average is appended in seconds
ToMs_Seconds(avg) == avg

\* compare.py:37,42, average * 1000 (seconds to milliseconds), units of 10^-6;
\* the product has the sign bit of the average
ToMs(avg) == [neg |-> avg.neg, mag |-> avg.mag * 1000]

-----------------------------------------------------------------------------
\* Chart geometry, in thousandths of an axis unit

\* compare.py:48
width == 350

\* compare.py:49, np.arange(len(framework_names))
Arange(n) == [k \in 1..n |-> (k - 1) * 1000]

\* ax.bar(centers, heights, width): one centred rectangle per position
Bar(centers, heights) ==
  [k \in 1..Len(centers) |->
     [x |-> centers[k] - width \div 2, width |-> width, height |-> heights[k]]]

\* compare.py:52,76, the positions x - width / 2
LeftCenters(x) == [k \in 1..Len(x) |-> x[k] - width \div 2]

\* compare.py:53,77, the positions x + width / 2
RightCenters(x) == [k \in 1..Len(x) |-> x[k] + width \div 2]

\* ax.text(bar.get_x() + bar.get_width() / 2.0, height, s)
TextOn(bar, s) == [x |-> bar.x + bar.width \div 2, y |-> bar.height, s |-> s]

EmptyAxes == [ylabel |-> "", title |-> "", xticks |-> <<>>, xticklabels |-> <<>>,
              legend |-> FALSE, texts |-> <<>>]

-----------------------------------------------------------------------------
\* framework_comparison.png before the first run
NoImage == [exists |-> FALSE, content |-> <<>>]

NoOutcome == [status |-> "none", error |-> "", names |-> <<>>, series |-> <<>>,
              labels |-> <<>>, stdout |-> <<>>]

\* what a run has produced so far
Outcome == [status |-> pc, error |-> error, names |-> framework_names,
            series |-> <<rps_no_schema, rps_schema, latency_no_schema, latency_schema>>,
            labels |-> <<ax1.texts, ax2.texts>>, stdout |-> stdout]

\* state of a freshly started interpreter: compare.py:25-29 and no chart yet
Fresh ==
  /\ pc = "loop" /\ error = "" /\ i = 1 /\ slot = 0
  /\ data = NoDoc /\ retval = NoDoc /\ pending = "" /\ openFiles = {}
  /\ rps_no_schema = <<>> /\ rps_schema = <<>>
  /\ latency_no_schema = <<>> /\ latency_schema = <<>>
  /\ framework_names = <<>>
  /\ rps1 = <<>> /\ rps2 = <<>> /\ lat1 = <<>> /\ lat2 = <<>>
  /\ ax1 = EmptyAxes /\ ax2 = EmptyAxes /\ labelPos = 1
  /\ stdout = <<>> /\ imageWrites = 0 /\ openLog = <<>>

Init ==
  /\ fs \in [FileSet -> FileContents]
  /\ output = NoImage
  /\ run = 1
  /\ prevOutcome = NoOutcome
  /\ Fresh

\* every file holds a complete document, with values chosen for their labels
InitLabels ==
  /\ fs \in [FileSet -> {[exists |-> TRUE, text |-> TRUE, valid |-> TRUE, doc |-> d] :
                            d \in LabelDocs}]
  /\ output = NoImage
  /\ run = 1
  /\ prevOutcome = NoOutcome
  /\ Fresh

env == <<fs, output, run, prevOutcome>>
io == <<stdout, imageWrites>>

\* an unhandled exception ends the run
Raise(e) == pc' = "aborted" /\ error' = e

\* variant: files[1] is read before files[0]
CurrentFile_SchemaFirst == frameworks[i].files[2 - slot]

\* the file the loop is at: files[0] or files[1] of the current entry
CurrentFile == frameworks[i].files[slot + 1]

-----------------------------------------------------------------------------
\* compare.py:31-32, the for statement and framework_names.append(framework)
LoopHead ==
  /\ pc = "loop"
  /\ IF i <= N
       THEN /\ framework_names' = Append(framework_names, frameworks[i].name)
            /\ slot' = 0
            /\ pc' = "open"
       ELSE /\ pc' = "subplots"
            /\ UNCHANGED <<framework_names, slot>>
  /\ UNCHANGED <<env, io, error, i, data, retval, pending, openFiles, openLog, chart,
                 rps_no_schema, rps_schema, latency_no_schema, latency_schema>>

\* variant: read_json_file answers an absent file with a document of zeros
Open_DefaultOnMissing ==
  /\ pc = "open"
  /\ IF fs[CurrentFile].exists
       THEN /\ openFiles' = openFiles \cup {CurrentFile}
            /\ openLog' = Append(openLog, CurrentFile)
            /\ pc' = "load"
            /\ UNCHANGED data
       ELSE /\ data' = JsonDoc(Float(0), Float(0))
            /\ pc' = "rps"
            /\ UNCHANGED <<openFiles, openLog>>
  /\ UNCHANGED <<env, io, error, i, slot, retval, pending, lists, chart>>

\* compare.py:9, open(filename) in read_json_file called at line 35 or 40
Open ==
  /\ pc = "open"
  /\ IF fs[CurrentFile].exists
       THEN /\ openFiles' = openFiles \cup {CurrentFile}
            /\ openLog' = Append(openLog, CurrentFile)
            /\ pc' = "load"
            /\ UNCHANGED error
       ELSE /\ Raise("FileNotFoundError")
            /\ UNCHANGED <<openFiles, openLog>>
  /\ UNCHANGED <<env, io, i, slot, data, retval, pending, lists, chart>>

\* compare.py:10, json.load(f): f.read() decodes the bytes, then the text is
\* parsed
Load ==
  /\ pc = "load"
  /\ IF ~fs[CurrentFile].text
       THEN retval' = NoDoc /\ pending' = "UnicodeDecodeError"
       ELSE IF ~fs[CurrentFile].valid
              THEN retval' = NoDoc /\ pending' = "JSONDecodeError"
              ELSE retval' = fs[CurrentFile].doc /\ pending' = ""
  /\ pc' = "close"
  /\ UNCHANGED <<env, io, error, i, slot, data, openFiles, openLog, lists, chart>>

\* variant: json.load(open(filename)) without a with block
AfterWith_NoClose(open, f) == open

\* files left open when the with block of read_json_file is left
AfterWith(open, f) == open \ {f}

\* compare.py:9-10, leaving the with block, then the return and the assignment
\* to data at line 35 or 40, or the propagation of the exception
Close ==
  /\ pc = "close"
  /\ openFiles' = AfterWith(openFiles, CurrentFile)
  /\ IF pending = ""
       THEN data' = retval /\ pc' = "rps" /\ UNCHANGED error
       ELSE Raise(pending) /\ UNCHANGED data
  /\ pending' = ""
  /\ retval' = NoDoc
  /\ UNCHANGED <<env, io, i, slot, openLog, lists, chart>>

\* variant: the throughput lists take the value at the front, X.insert(0, v)
AppendRps_Prepend(v) ==
  IF slot = 0
    THEN rps_no_schema' = <<v>> \o rps_no_schema /\ UNCHANGED rps_schema
    ELSE rps_schema' = <<v>> \o rps_schema /\ UNCHANGED rps_no_schema

\* the lists after X.append(v) where X is the list for the current file
AppendRps(v) ==
  IF slot = 0
    THEN rps_no_schema' = Append(rps_no_schema, v) /\ UNCHANGED rps_schema
    ELSE rps_schema' = Append(rps_schema, v) /\ UNCHANGED rps_no_schema

\* variant: line 42 appends to latency_no_schema as line 37 does
AppendLatency_SameList(v) ==
  latency_no_schema' = Append(latency_no_schema, v) /\ UNCHANGED latency_schema

AppendLatency(v) ==
  IF slot = 0
    THEN latency_no_schema' = Append(latency_no_schema, v) /\ UNCHANGED latency_schema
    ELSE latency_schema' = Append(latency_schema, v) /\ UNCHANGED latency_no_schema

\* variant: data.get("summary", {}).get("requestsPerSec", 0)
ExtractRps_Fallback ==
  /\ pc = "rps"
  /\ AppendRps(IF "summary" \in DOMAIN data /\ "requestsPerSec" \in DOMAIN data.summary
                 THEN data.summary.requestsPerSec ELSE Float(0))
  /\ pc' = "latency"
  /\ UNCHANGED <<env, io, error, i, slot, data, retval, pending, openFiles, openLog, chart,
                 latency_no_schema, latency_schema, framework_names>>

\* compare.py:36,41, X.append(data["summary"]["requestsPerSec"])
ExtractRps ==
  /\ pc = "rps"
  /\ IF "summary" \in DOMAIN data /\ "requestsPerSec" \in DOMAIN data.summary
       THEN /\ AppendRps(data.summary.requestsPerSec)
            /\ pc' = "latency"
            /\ UNCHANGED error
       ELSE /\ Raise("KeyError")
            /\ UNCHANGED <<rps_no_schema, rps_schema>>
  /\ UNCHANGED <<env, io, i, slot, data, retval, pending, openFiles, openLog, chart,
                 latency_no_schema, latency_schema, framework_names>>

\* compare.py:37,42, X.append(data["summary"]["average"] * 1000), then on to
\* the second file or to the next entry
ExtractLatency ==
  /\ pc = "latency"
  /\ IF "summary" \in DOMAIN data /\ "average" \in DOMAIN data.summary
       THEN /\ AppendLatency(ToMs(data.summary.average))
            /\ IF slot = 0
                 THEN slot' = 1 /\ pc' = "open" /\ UNCHANGED i
                 ELSE i' = i + 1 /\ pc' = "loop" /\ UNCHANGED slot
            /\ UNCHANGED error
       ELSE /\ Raise("KeyError")
            /\ UNCHANGED <<latency_no_schema, latency_schema, i, slot>>
  /\ UNCHANGED <<env, io, data, retval, pending, openFiles, openLog, chart,
                 rps_no_schema, rps_schema, framework_names>>

\* compare.py:45-61, the figure, x, the throughput bars, axis texts and ticks
Subplots ==
  /\ pc = "subplots"
  /\ LET x == Arange(Len(framework_names))
     IN  /\ rps1' = Bar(LeftCenters(x), rps_no_schema)
         /\ rps2' = Bar(RightCenters(x), rps_schema)
         /\ ax1' = [ax1 EXCEPT !.ylabel = "Requests per Second",
                      !.title = "Framework Performance Comparison - Requests per Second (Higher is Better)",
                      !.xticks = x, !.xticklabels = framework_names, !.legend = TRUE]
  /\ labelPos' = 1
  /\ pc' = "labels1"
  /\ UNCHANGED <<env, io, error, i, slot, data, retval, pending, openFiles, openLog, lists,
                 lat1, lat2, ax2>>

\* the bar at position k of the loops "for bars in [a, b]: for bar in bars"
NthBar(a, b, k) == IF k <= Len(a) THEN a[k] ELSE b[k - Len(a)]

\* compare.py:64-73, one pass of the inner loop: the label of one throughput bar
LabelThroughput ==
  /\ pc = "labels1"
  /\ LET bar == NthBar(rps1, rps2, labelPos)
     IN  ax1' = [ax1 EXCEPT !.texts = Append(@, TextOn(bar, ThroughputLabel(bar.height)))]
  /\ IF labelPos < Len(rps1) + Len(rps2)
       THEN labelPos' = labelPos + 1 /\ pc' = "labels1"
       ELSE labelPos' = 1 /\ pc' = "bars2"
  /\ UNCHANGED <<env, io, error, i, slot, data, retval, pending, openFiles, openLog, lists,
                 rps1, rps2, lat1, lat2, ax2>>

\* compare.py:76-83, the latency bars, axis texts and ticks
LatencyBars ==
  /\ pc = "bars2"
  /\ LET x == Arange(Len(framework_names))
     IN  /\ lat1' = Bar(LeftCenters(x), latency_no_schema)
         /\ lat2' = Bar(RightCenters(x), latency_schema)
         /\ ax2' = [ax2 EXCEPT !.ylabel = "Average Latency (ms)",
                      !.title = "Framework Performance Comparison - Average Latency (Lower is Better)",
                      !.xticks = x, !.xticklabels = framework_names, !.legend = TRUE]
  /\ labelPos' = 1
  /\ pc' = "labels2"
  /\ UNCHANGED <<env, io, error, i, slot, data, retval, pending, openFiles, openLog, lists,
                 rps1, rps2, ax1>>

\* compare.py:86-95, one pass of the inner loop: the label of one latency bar
LabelLatency ==
  /\ pc = "labels2"
  /\ LET bar == NthBar(lat1, lat2, labelPos)
     IN  ax2' = [ax2 EXCEPT !.texts = Append(@, TextOn(bar, LatencyLabel(bar.height)))]
  /\ IF labelPos < Len(lat1) + Len(lat2)
       THEN labelPos' = labelPos + 1 /\ pc' = "labels2"
       ELSE labelPos' = 1 /\ pc' = "savefig"
  /\ UNCHANGED <<env, io, error, i, slot, data, retval, pending, openFiles, openLog, lists,
                 rps1, rps2, lat1, lat2, ax1>>

\* what the saved image shows: both axes and the heights of the four containers
Figure == [ax1 |-> ax1, ax2 |-> ax2,
           heights |-> << [k \in 1..Len(rps1) |-> rps1[k].height],
                          [k \in 1..Len(rps2) |-> rps2[k].height],
                          [k \in 1..Len(lat1) |-> lat1[k].height],
                          [k \in 1..Len(lat2) |-> lat2[k].height] >>]

\* variant: the confirmation is printed where the image should be saved
Savefig_PrintFirst ==
  /\ pc = "savefig"
  /\ stdout' = Append(stdout, "Chart has been saved as 'framework_comparison.png'")
  /\ pc' = "print"
  /\ UNCHANGED <<env, imageWrites, error, i, slot, data, retval, pending,
                 openFiles, openLog, lists, chart>>

\* compare.py:98-99, tight_layout and savefig: the image file is overwritten
Savefig ==
  /\ pc = "savefig"
  /\ output' = [exists |-> TRUE, content |-> <<Figure>>]
  /\ imageWrites' = imageWrites + 1
  /\ pc' = "print"
  /\ UNCHANGED <<fs, run, prevOutcome, stdout, error, i, slot, data, retval, pending,
                 openFiles, openLog, lists, chart>>

\* compare.py:100
EmitConfirmation ==
  /\ pc = "print"
  /\ stdout' = Append(stdout, "Chart has been saved as 'framework_comparison.png'")
  /\ pc' = "done"
  /\ UNCHANGED <<env, imageWrites, error, i, slot, data, retval, pending,
                 openFiles, openLog, lists, chart>>

\* the run is over: the script ran to its end or an exception ended it
RunEnded == pc \in {"done", "aborted"}

\* variant: the aggregated lists survive from one run to the next
Rerun_KeepLists ==
  /\ RunEnded
  /\ run < MaxRuns
  /\ run' = run + 1
  /\ prevOutcome' = Outcome
  /\ pc' = "loop" /\ error' = "" /\ i' = 1 /\ slot' = 0
  /\ data' = NoDoc /\ retval' = NoDoc /\ pending' = "" /\ openFiles' = {}
  /\ rps1' = <<>> /\ rps2' = <<>> /\ lat1' = <<>> /\ lat2' = <<>>
  /\ ax1' = EmptyAxes /\ ax2' = EmptyAxes /\ labelPos' = 1
  /\ stdout' = <<>> /\ imageWrites' = 0 /\ openLog' = <<>>
  /\ UNCHANGED <<fs, output, lists>>

\* the script is started again over the same files: a new interpreter, in which
\* compare.py:25-29 start from empty lists; only the file system is kept
Rerun ==
  /\ RunEnded
  /\ run < MaxRuns
  /\ run' = run + 1
  /\ prevOutcome' = Outcome
  /\ pc' = "loop" /\ error' = "" /\ i' = 1 /\ slot' = 0
  /\ data' = NoDoc /\ retval' = NoDoc /\ pending' = "" /\ openFiles' = {}
  /\ rps_no_schema' = <<>> /\ rps_schema' = <<>>
  /\ latency_no_schema' = <<>> /\ latency_schema' = <<>>
  /\ framework_names' = <<>>
  /\ rps1' = <<>> /\ rps2' = <<>> /\ lat1' = <<>> /\ lat2' = <<>>
  /\ ax1' = EmptyAxes /\ ax2' = EmptyAxes /\ labelPos' = 1
  /\ stdout' = <<>> /\ imageWrites' = 0 /\ openLog' = <<>>
  /\ UNCHANGED <<fs, output>>

Step == \/ LoopHead \/ Open \/ Load \/ Close \/ ExtractRps \/ ExtractLatency
        \/ Subplots \/ LabelThroughput \/ LatencyBars \/ LabelLatency
        \/ Savefig \/ EmitConfirmation

Next == Step \/ Rerun

Spec == Init /\ [][Next]_vars

\* one run of the script; the interpreter keeps executing it until it ends
FairSpec == Init /\ [][Step]_vars /\ WF_vars(Step)

\* one run over complete documents, for the label formats
LabelSpec == InitLabels /\ [][Step]_vars

-----------------------------------------------------------------------------
\* Helpers of the properties

HasRps(d) == "summary" \in DOMAIN d /\ "requestsPerSec" \in DOMAIN d.summary
HasAverage(d) == "summary" \in DOMAIN d /\ "average" \in DOMAIN d.summary

Missing(f) == ~fs[f].exists
Malformed(f) == fs[f].exists /\ ~(fs[f].text /\ fs[f].valid)
ShapeError(f) == fs[f].exists /\ fs[f].valid /\ ~(HasRps(fs[f].doc) /\ HasAverage(fs[f].doc))
Bad(f) == Missing(f) \/ Malformed(f) \/ ShapeError(f)

\* position in ConfigFiles of the file the loop is at
CurrentIndex == 2 * (i - 1) + slot + 1

Rendering == pc \in {"subplots", "labels1", "bars2", "labels2", "savefig", "print", "done"}
Saved == pc \in {"print", "done"}

ConfigNames == [k \in 1..N |-> frameworks[k].name]

-----------------------------------------------------------------------------
\* C1: when some configured input file is absent, no run reaches savefig: the
\* output image is never written and nothing is printed.
C1_MissingFileNoOutput ==
  (\E f \in FileSet : Missing(f)) =>
     /\ pc \notin {"savefig", "print", "done"}
     /\ imageWrites = 0
     /\ output = NoImage
     /\ stdout = <<>>

\* the last configured file is the absent one: every other file was read, the
\* run aborted on the last open
C1_Witness ==
  /\ pc = "aborted" /\ error = "FileNotFoundError"
  /\ CurrentIndex = 2 * N
  /\ Len(openLog) = 2 * N - 1
  /\ imageWrites = 0

\* C2: a document without summary, summary.requestsPerSec or summary.average
\* ends the run at the failing extraction: nothing is appended in place of the
\* missing field, no file after it is opened and no chart is written.
C2_ShapeErrorAborts ==
  /\ \A k \in 1..(2 * N) :
        ShapeError(ConfigFiles[k]) =>
           /\ Len(openLog) <= k
           /\ ~Rendering
           /\ imageWrites = 0 /\ output = NoImage
           /\ ~(Len(openLog) = k /\ pc \in {"open", "loop"})
  /\ (pc = "aborted" /\ error = "KeyError") =>
        LET d == fs[CurrentFile].doc
            rl == IF slot = 0 THEN rps_no_schema ELSE rps_schema
            ll == IF slot = 0 THEN latency_no_schema ELSE latency_schema
        IN  /\ ShapeError(CurrentFile)
            /\ openLog = SubSeq(ConfigFiles, 1, CurrentIndex)
            /\ Len(ll) = i - 1
            /\ IF HasRps(d)
                 THEN Len(rl) = i /\ rl[i] = d.summary.requestsPerSec
                 ELSE Len(rl) = i - 1

\* the schema file of the last framework has requestsPerSec but no average:
\* the throughput was appended, the latency was not
C2_Witness ==
  /\ pc = "aborted" /\ error = "KeyError"
  /\ CurrentIndex = 2 * N
  /\ HasRps(fs[CurrentFile].doc)
  /\ Len(rps_schema) = N /\ Len(latency_schema) = N - 1

\* C3 as stated: the five sequences have the same length in every state.
C3_AlwaysEqualLength ==
  /\ Len(rps_no_schema) = Len(framework_names)
  /\ Len(rps_schema) = Len(framework_names)
  /\ Len(latency_no_schema) = Len(framework_names)
  /\ Len(latency_schema) = Len(framework_names)

\* C3 amended: the five sequences have the same length between iterations and
\* from the end of the loop on; inside an iteration and when a run aborts each
\* sequence is as long as, or one longer than, the ones appended after it, and
\* framework_names is exactly one longer than latency_schema.
C3_EqualLengthBetweenIterations ==
  /\ Len(framework_names) >= Len(rps_no_schema)
  /\ Len(rps_no_schema) >= Len(latency_no_schema)
  /\ Len(latency_no_schema) >= Len(rps_schema)
  /\ Len(rps_schema) >= Len(latency_schema)
  /\ Len(latency_schema) >= Len(framework_names) - 1
  /\ (pc = "loop" \/ Rendering) => C3_AlwaysEqualLength /\ Len(framework_names) = i - 1
  /\ (pc \notin {"loop"} /\ ~Rendering) => Len(framework_names) = Len(latency_schema) + 1

\* the loop is between its first and second iteration with one element in
\* each sequence
C3_Witness ==
  /\ pc = "loop" /\ i = 2
  /\ Len(framework_names) = 1 /\ Len(latency_schema) = 1

\* C4: when the chart is saved, both panels have one tick per configured
\* framework, at positions 0, 1, ..., in configuration order: tick label k and
\* framework_names[k] are the k-th configured name, and position k of each of
\* the four aggregated sequences holds the value read from the k-th configured
\* framework's file of that condition (requestsPerSec, and average times 1000),
\* so no sequence is sorted, filtered, deduplicated or permuted.
C4_CategoriesInConfigOrder ==
  pc \in {"savefig", "print", "done"} =>
     /\ framework_names = ConfigNames
     /\ Len(ax1.xticks) = N /\ Len(ax2.xticks) = N
     /\ ax1.xticklabels = ConfigNames
     /\ ax2.xticklabels = ConfigNames
     /\ \A k \in 1..N : ax1.xticks[k] = (k - 1) * 1000 /\ ax2.xticks[k] = (k - 1) * 1000
     /\ Len(rps_no_schema) = N /\ Len(rps_schema) = N
     /\ Len(latency_no_schema) = N /\ Len(latency_schema) = N
     /\ \A k \in 1..N :
           LET no == fs[frameworks[k].files[1]].doc.summary
               sch == fs[frameworks[k].files[2]].doc.summary
           IN  /\ framework_names[k] = frameworks[k].name
               /\ rps_no_schema[k] = no.requestsPerSec
               /\ rps_schema[k] = sch.requestsPerSec
               /\ latency_no_schema[k] = [neg |-> no.average.neg, mag |-> no.average.mag * 1000]
               /\ latency_schema[k] = [neg |-> sch.average.neg, mag |-> sch.average.mag * 1000]

\* a completed run whose frameworks differ in every measured value, so that any
\* reordering of a sequence would show
C4_Witness ==
  /\ pc = "done"
  /\ Len(ax2.xticklabels) = N
  /\ ax1.xticklabels[N] = frameworks[N].name
  /\ rps_no_schema[1] # rps_no_schema[N]
  /\ rps_schema[1] # rps_schema[N]
  /\ latency_no_schema[1] # latency_no_schema[N]
  /\ latency_schema[1] # latency_schema[N]

\* C5: in a saved chart, bar k of each container has the value of framework
\* k's file of that condition: requestsPerSec for throughput, average times
\* 1000 for latency, no-schema bars left of the tick and schema bars right.
C5_BarsEqualFileValues ==
  Saved =>
     \A k \in 1..N :
        LET no == fs[frameworks[k].files[1]].doc.summary
            sch == fs[frameworks[k].files[2]].doc.summary
        IN  /\ rps1[k].height = no.requestsPerSec
            /\ rps2[k].height = sch.requestsPerSec
            /\ lat1[k].height.mag = no.average.mag * 1000
            /\ lat1[k].height.neg = no.average.neg
            /\ lat2[k].height.mag = sch.average.mag * 1000
            /\ lat2[k].height.neg = sch.average.neg
            /\ rps1[k].x + rps1[k].width = ax1.xticks[k]
            /\ rps2[k].x = ax1.xticks[k]
            /\ lat1[k].x + lat1[k].width = ax2.xticks[k]
            /\ lat2[k].x = ax2.xticks[k]

\* a saved chart in which the two files of the first framework differ in both
\* fields and the first two frameworks differ too
C5_Witness ==
  /\ pc = "done"
  /\ rps1[1].height # rps2[1].height
  /\ lat1[1].height # lat2[1].height
  /\ rps1[1].height # rps1[2].height

\* C6: at most one input file is open at any time, none is open when the next
\* one is about to be opened, and none is open once the run has ended or
\* aborted, also when parsing failed.
C6_FilesClosed ==
  /\ Cardinality(openFiles) <= 1
  /\ pc \notin {"load", "close"} => openFiles = {}
  /\ pc \in {"load", "close"} => openFiles = {CurrentFile}

\* a run that aborted because its last file, once opened, could not be
\* decoded or parsed
C6_Witness ==
  /\ pc = "aborted" /\ error \in {"JSONDecodeError", "UnicodeDecodeError"}
  /\ Len(openLog) = 2 * N
  /\ openFiles = {}

\* C7: the confirmation line is printed at most once, only by a run that has
\* written the image, exactly once by a run that completes, never by a run
\* that aborts.
C7_ConfirmationAfterImage ==
  /\ Len(stdout) <= 1
  /\ stdout # <<>> =>
        /\ pc = "done"
        /\ imageWrites = 1
        /\ output = [exists |-> TRUE, content |-> <<Figure>>]
        /\ stdout[1] = "Chart has been saved as 'framework_comparison.png'"
  /\ pc = "done" => Len(stdout) = 1
  /\ pc = "aborted" => stdout = <<>> /\ imageWrites = 0

C7_Witness ==
  /\ pc = "done"
  /\ Len(stdout) = 1
  /\ imageWrites = 1 /\ output.exists

\* C8: a run over the same files ends with the outcome of the run before it:
\* same status, framework names, aggregated sequences, labels and console
\* text, whether or not the earlier run left an output file.
C8_SameOutcome ==
  (RunEnded /\ run > 1) => Outcome = prevOutcome

\* the second run completed although the first one had left an image
C8_Witness ==
  /\ run = 2 /\ pc = "done"
  /\ prevOutcome.status = "done"
  /\ Len(prevOutcome.names) = N

\* position of the first configured file that is absent, malformed or lacks a
\* field; 2N + 1 when there is none
FirstBad ==
  IF \E k \in 1..(2 * N) : Bad(ConfigFiles[k])
    THEN CHOOSE k \in 1..(2 * N) :
           Bad(ConfigFiles[k]) /\ \A j \in 1..(k - 1) : ~Bad(ConfigFiles[j])
    ELSE 2 * N + 1

\* files are opened in configuration order, no-schema file first, and none
\* after the first failing one; a run that completes has read all 2N files,
\* written the image and printed; a run that aborts did so at the first
\* failing file
ReadOrder ==
  /\ Len(openLog) <= 2 * N
  /\ openLog = SubSeq(ConfigFiles, 1, Len(openLog))
  /\ \A k \in 1..Len(openLog) :
        openLog[k] = frameworks[(k + 1) \div 2].files[IF k % 2 = 1 THEN 1 ELSE 2]
  /\ Len(openLog) <= FirstBad
  /\ Missing(ConfigFiles[IF FirstBad > 2 * N THEN 1 ELSE FirstBad]) => Len(openLog) < FirstBad
  /\ pc = "done" =>
        /\ FirstBad = 2 * N + 1
        /\ Len(openLog) = 2 * N
        /\ imageWrites = 1 /\ Len(stdout) = 1
  /\ pc = "aborted" =>
        /\ error # ""
        /\ CurrentIndex = FirstBad
        /\ Len(openLog) = IF Missing(CurrentFile) THEN FirstBad - 1 ELSE FirstBad

\* C9: every run ends, by completing or by aborting at the first failing
\* operation, and files are read in configuration order with nothing opened
\* after the first failure.
C9_TerminatesInOrder == []ReadOrder /\ <>RunEnded

\* a run that aborted at its third file after reading the first two
C9_Witness ==
  /\ pc = "aborted"
  /\ FirstBad = 3
  /\ Len(framework_names) = 2 /\ Len(latency_schema) = 1

-----------------------------------------------------------------------------
\* Reading labels back

IsDigit(c) == c \in {"0", "1", "2", "3", "4", "5", "6", "7", "8", "9"}

DigitValue(c) == CHOOSE d \in 0..9 : DigitChar(d) = c

\* value of a sequence of digits
RECURSIVE NatOf(_)
NatOf(ds) == IF ds = <<>> THEN 0
             ELSE 10 * NatOf(SubSeq(ds, 1, Len(ds) - 1)) + DigitValue(ds[Len(ds)])

WithoutCommas(s) == SelectSeq(s, LAMBDA c : c # ",")

Unsigned(s) == IF s # <<>> /\ s[1] = "-" THEN Tail(s) ELSE s

\* s is the integer part of h (in tenths) cut toward zero, with a comma
\* exactly before every group of three digits
IsGroupedIntegerOf(s, h) ==
  LET b == Unsigned(s)
      n == Len(b)
      m == NatOf(WithoutCommas(b))
  IN  /\ n >= 1 /\ n % 4 # 0
      /\ \A p \in 1..n : IF (n - p + 1) % 4 = 0 THEN b[p] = "," ELSE IsDigit(b[p])
      /\ b[1] = "0" => n = 1
      /\ (s[1] = "-") <=> (h.neg /\ h.mag >= 10)
      /\ m * 10 <= h.mag /\ h.mag < (m + 1) * 10

\* s is h (in units of 10^-6) to the nearest hundredth, written with exactly
\* two digits after the point
IsTwoDecimalsOf(s, h) ==
  LET b == Unsigned(s)
      n == Len(b)
      c == 100 * NatOf(SubSeq(b, 1, n - 3)) + NatOf(SubSeq(b, n - 1, n))
  IN  /\ n >= 4
      /\ b[n - 2] = "."
      /\ \A p \in 1..n : p # n - 2 => IsDigit(b[p])
      /\ b[1] = "0" => n = 4
      /\ (s[1] = "-") <=> h.neg
      /\ Abs(c * 10000 - h.mag) <= 5000

\* C10: every bar gets exactly one label, placed at the middle of its top;
\* a throughput label is the bar's value cut to an integer toward zero with
\* thousands grouping (49999.9 gives 49,999), a latency label is the value in
\* milliseconds with exactly two decimals (average 0.0025 gives 2.50).
C10_Labels ==
  /\ \A j \in 1..Len(ax1.texts) :
        LET bar == NthBar(rps1, rps2, j)
            t == ax1.texts[j]
        IN  /\ 2 * t.x = 2 * bar.x + bar.width /\ t.y = bar.height
            /\ IsGroupedIntegerOf(t.s, bar.height)
            /\ bar.height = Float(499999) => t.s = <<"4", "9", ",", "9", "9", "9">>
  /\ \A j \in 1..Len(ax2.texts) :
        LET bar == NthBar(lat1, lat2, j)
            t == ax2.texts[j]
        IN  /\ 2 * t.x = 2 * bar.x + bar.width /\ t.y = bar.height
            /\ IsTwoDecimalsOf(t.s, bar.height)
            /\ bar.height = Float(2500000) => t.s = <<"2", ".", "5", "0">>
  /\ Len(ax1.texts) <= 2 * N /\ Len(ax2.texts) <= 2 * N
  /\ pc \in {"bars2", "labels2", "savefig", "print", "done"} => Len(ax1.texts) = 2 * N
  /\ pc \in {"savefig", "print", "done"} => Len(ax2.texts) = 2 * N

\* a saved chart with a bar at 49999.9 req/s, a bar at 2.5 ms, a bar at the
\* decimal tie 12.505 ms and a bar at -0.0 ms, all labelled
C10_Witness ==
  /\ pc = "done"
  /\ Len(ax1.texts) = 2 * N /\ Len(ax2.texts) = 2 * N
  /\ \E j \in 1..(2 * N) : ax1.texts[j].y = Float(499999)
  /\ \E j \in 1..(2 * N) : ax2.texts[j].y = Float(2500000)
  /\ \E j \in 1..(2 * N) : ax2.texts[j].y = Float(12505000)
  /\ \E j \in 1..(2 * N) :
        ax2.texts[j].y = NegZero /\ ax2.texts[j].s = <<"-", "0", ".", "0", "0">>

====
